---- MODULE Spec2Model ----
(***************************************************************************)
(* Model of the calendar agent's availability engine                       *)
(* (src/src/find_slot_and_create.py) and of the two front ends that drive  *)
(* it (src/src/agent.py main, src/src/ui.py "Schedule Meeting" handler).   *)
(*                                                                         *)
(* Time.  An instant is an integer number of minutes since 00:00 UTC of    *)
(* the current local date's day 0.  The time zone is a fixed UTC offset    *)
(* (no DST transition inside the scanned range), so astimezone() keeps the *)
(* instant and comparing two aware datetimes compares instants.            *)
(*                                                                         *)
(* Busy timestamps.  The free/busy response carries ISO-8601 strings, all  *)
(* in the same UTC format (the query asks for timeZone "UTC").  On such    *)
(* strings Python's string order is the chronological order, so a busy     *)
(* timestamp is modelled by the instant it denotes; the string comparisons *)
(* of merge_busy_intervals and the fromisoformat() of invert_busy_to_free  *)
(* then act on that instant.                                               *)
(*                                                                         *)
(* An interval is a pair <<start, end>>.                                   *)
(***************************************************************************)
EXTENDS Integers, Sequences, FiniteSets, TLC

\* ---------------------------------------------------------------- bounds

\* SpecMerge: busy instants range over 0..MaxT
MaxT == 4
\* SpecMerge: at most this many busy intervals in the first calendar
MaxBusyPerCal == 2
\* Spec: at most this many busy intervals in one free/busy response
MaxBusyTotal == 2

\* ----------------------------------------------------------------- state

VARIABLES
  pc,              \* position of the running computation
  flow,            \* "cli" (agent.py main) or "web" (ui.py handler)
  time_frame,      \* parsed["time_frame"], a string as a sequence of characters
  preferred,       \* parsed["preferred_times"], likewise
  duration,        \* parsed["duration_minutes"]
  tz_offset,       \* user_tz: minutes east of UTC
  start_dt_local,  \* request window start (instant)
  end_dt_local,    \* request window end (instant)
  day_cursor,      \* local calendar day being scanned (0 = today)
  windows,         \* preference windows of the day last built
  candidate_free,  \* accumulated candidate free slots
  slot,            \* (slot_start_utc, slot_end_utc), or None
  created,         \* create_event has been called
  now,             \* parse_time_frame: datetime.now(user_tz), an instant
  attendees,       \* parsed["attendees"], a list of strings
  emails,          \* the attendees that contain "@", stripped
  recheck,         \* slot_conflicts: the re-query's busy list per calendar
  steps,           \* the steps of the run passed so far, in order
  visited,         \* the values of day_cursor the scan loop body ran with
  inverted,        \* the clamped windows passed to invert_busy_to_free
  calendars,       \* free/busy response: sequence of the calendars' busy lists
  merged_busy,     \* result of merge_busy_intervals
  all_busy,        \* merge_busy_intervals: the flattened, sorted busy list
  idx,             \* merge_busy_intervals: index of the sweep in all_busy
  current,         \* merge_busy_intervals: (current_start, current_end)
  merged,          \* merge_busy_intervals: the list being built
  window,          \* invert_busy_to_free: (window_start, window_end)
  free_slots       \* invert_busy_to_free: the returned free slots

mergeVars == <<all_busy, idx, current, merged, window, free_slots>>

vars == <<pc, flow, time_frame, preferred, duration, tz_offset, start_dt_local,
          end_dt_local, day_cursor, windows, candidate_free, slot, created, now, attendees,
          emails, recheck, steps, visited, inverted,
          calendars, merged_busy, all_busy, idx, current, merged, window,
          free_slots>>

\* ------------------------------------------------------- generic helpers

Max2(a, b) == IF a >= b THEN a ELSE b
Min2(a, b) == IF a <= b THEN a ELSE b

\* sequences over S of length 0..n
SeqsUpTo(S, n) == UNION { [1..k -> S] : k \in 0..n }

RECURSIVE Flatten(_)
\* all_busy.extend(...) for every calendar, in the dict's iteration order
Flatten(cals) ==
  IF cals = <<>> THEN <<>> ELSE Head(cals) \o Flatten(Tail(cals))

RECURSIVE InsertByStart(_, _)
InsertByStart(x, s) ==
  IF s = <<>> THEN <<x>>
  ELSE IF x[1] < Head(s)[1] THEN <<x>> \o s
  ELSE <<Head(s)>> \o InsertByStart(x, Tail(s))

RECURSIVE StableSort(_)
\* list.sort(key = start): stable, equal starts keep their input order
StableSort(s) ==
  IF s = <<>> THEN <<>>
  ELSE InsertByStart(s[Len(s)], StableSort(SubSeq(s, 1, Len(s) - 1)))

\* a variant that leaves the list in its input order
KeepInputOrder(s) == s

\* all_busy.sort(key=lambda x: x[0])
SortByStart(s) == StableSort(s)

\* --------------------------------------------------------------- strings

\* A Python string is the sequence of its characters.
UpperCase == <<"A", "B", "C", "D", "E", "F", "G", "H", "I", "J", "K", "L", "M",
               "N", "O", "P", "Q", "R", "S", "T", "U", "V", "W", "X", "Y", "Z">>
LowerCase == <<"a", "b", "c", "d", "e", "f", "g", "h", "i", "j", "k", "l", "m",
               "n", "o", "p", "q", "r", "s", "t", "u", "v", "w", "x", "y", "z">>

\* the lower-case letter of every upper-case letter
ToLower ==
  [c \in { UpperCase[i] : i \in 1..Len(UpperCase) } |->
     LowerCase[CHOOSE i \in 1..Len(UpperCase) : UpperCase[i] = c]]

LowerChar(c) == IF c \in DOMAIN ToLower THEN ToLower[c] ELSE c

\* str.lower()
Lower(str) == [i \in 1..Len(str) |-> LowerChar(str[i])]

\* sub in str
Contains(sub, str) ==
  \E i \in 1..(Len(str) - Len(sub) + 1) : SubSeq(str, i, i + Len(sub) - 1) = sub

Str_morning   == <<"m", "o", "r", "n", "i", "n", "g">>
Str_afternoon == <<"a", "f", "t", "e", "r", "n", "o", "o", "n">>
Str_evening   == <<"e", "v", "e", "n", "i", "n", "g">>
Str_today     == <<"t", "o", "d", "a", "y">>
Str_tomorrow  == <<"t", "o", "m", "o", "r", "r", "o", "w">>

\* ------------------------------------------------------------------ time

Hour(h) == h * 60
MinutesPerDay == 24 * 60

\* datetime.datetime.combine(day, time, tzinfo=user_tz), as an instant
Combine(day, minute_of_day, tz) == day * MinutesPerDay + minute_of_day - tz

\* dt.date() of an instant seen in user_tz
LocalDate(instant, tz) == (instant + tz) \div MinutesPerDay

\* ---------------------------------------------------- parse_time_frame

\* a variant that keeps the time of day of the current instant
KeepTimeOfDay(today, tz) == today

\* today.replace(hour=0, minute=0, second=0, microsecond=0)
Midnight(today, tz) == Combine(LocalDate(today, tz), 0, tz)

\* today: datetime.datetime.now(user_tz); returns (start, end)
parse_time_frame(tf, today, tz) ==
  LET midnight == Midnight(today, tz) IN
  IF Contains(Str_today, Lower(tf))
  THEN <<midnight, midnight + MinutesPerDay>>
  ELSE IF Contains(Str_tomorrow, Lower(tf))
  THEN <<midnight + MinutesPerDay, midnight + 2 * MinutesPerDay>>
  ELSE <<midnight, midnight + 7 * MinutesPerDay>>

\* ------------------------------------------- preferred_hours_to_windows

preferred_hours_to_windows(preferred_times, day, tz) ==
  LET morning == IF Contains(Str_morning, Lower(preferred_times))
                 THEN << <<Combine(day, Hour(9), tz), Combine(day, Hour(12), tz)>> >>
                 ELSE <<>>
  IN  IF morning = <<>>
      THEN << <<Combine(day, Hour(9), tz), Combine(day, Hour(17), tz)>> >>
      ELSE morning

\* ------------------------------------------------- merge_busy_intervals

\* variants of the sweep's test and of the extension of the running end
StartsAtOrBeforeEnd(next_start, current_end) == next_start <= current_end
StartsAfterEnd(next_start, current_end) == next_start > current_end
TakeNextEnd(current_end, next_end) == next_end
\* a variant of the return that forgets the running interval
DropRunning(closed, running) == closed

\* if next_start < current_end:
StartsBeforeEnd(next_start, current_end) == next_start < current_end

\* current_end = max(current_end, next_end)
ExtendEnd(current_end, next_end) == Max2(current_end, next_end)

\* merged.append((current_start, current_end)) after the loop
CloseRunning(closed, running) == Append(closed, running)

\* one iteration of the sweep; st = [merged, cur], cur the running interval
MergeStep(st, nxt) ==
  IF StartsBeforeEnd(nxt[1], st.cur[2])
  THEN [merged |-> st.merged,
        cur    |-> <<st.cur[1], ExtendEnd(st.cur[2], nxt[2])>>]
  ELSE [merged |-> Append(st.merged, st.cur),
        cur    |-> nxt]

RECURSIVE MergeSweep(_, _)
MergeSweep(st, rest) ==
  IF rest = <<>> THEN st ELSE MergeSweep(MergeStep(st, Head(rest)), Tail(rest))

\* calendars: the sequence of the calendars' busy lists
merge_busy_intervals(cals) ==
  LET sorted_busy == SortByStart(Flatten(cals)) IN
  IF sorted_busy = <<>> THEN <<>>
  ELSE LET st == MergeSweep([merged |-> <<>>, cur |-> sorted_busy[1]],
                            Tail(sorted_busy))
       IN  CloseRunning(st.merged, st.cur)

\* -------------------------------------------------- invert_busy_to_free

\* a variant that drops the free time after the last busy interval
NoTrailingFree(last_end, window_end) == <<>>

\* if last_end < window_end: free_slots.append((last_end, window_end))
TrailingFree(last_end, window_end) ==
  IF last_end < window_end THEN << <<last_end, window_end>> >> ELSE <<>>

\* one iteration of the loop; st = [free_slots, last_end]
InvertStep(st, busy) ==
  [free_slots |-> IF st.last_end < busy[1]
                  THEN Append(st.free_slots, <<st.last_end, busy[1]>>)
                  ELSE st.free_slots,
   last_end   |-> Max2(st.last_end, busy[2])]

RECURSIVE InvertSweep(_, _)
InvertSweep(st, rest) ==
  IF rest = <<>> THEN st
  ELSE InvertSweep(InvertStep(st, Head(rest)), Tail(rest))

invert_busy_to_free(busy_list, window_start, window_end) ==
  IF busy_list = <<>> THEN << <<window_start, window_end>> >>
  ELSE LET st == InvertSweep([free_slots |-> <<>>, last_end |-> window_start],
                             busy_list)
       IN  st.free_slots \o TrailingFree(st.last_end, window_end)

\* ------------------------------------------------------ find_first_slot

\* the (None, None) result
None == <<>>

\* a variant that accepts a candidate shorter than the duration
ShorterOrEqual(free_start, free_end, minutes) == free_end - free_start <= minutes

\* if free_end - free_start >= duration_delta:
LongEnough(free_start, free_end, minutes) == free_end - free_start >= minutes

RECURSIVE find_first_slot(_, _)
find_first_slot(candidates, minutes) ==
  IF candidates = <<>> THEN None
  ELSE LET c == Head(candidates) IN
       IF LongEnough(c[1], c[2], minutes)
       THEN <<c[1], c[1] + minutes>>
       ELSE find_first_slot(Tail(candidates), minutes)

\* ===================================================================
\* SpecMerge: merge_busy_intervals run step by step on every bounded
\* free/busy response, then invert_busy_to_free applied to its result.
\* ===================================================================

\* busy intervals over 0..MaxT; a reported busy period has start < end
MergeIntervals == { iv \in (0..MaxT) \X (0..MaxT) : iv[1] < iv[2] }

\* one calendar, or two of which the second reports at most one interval
MergeInputs ==
  { <<c1>> : c1 \in SeqsUpTo(MergeIntervals, MaxBusyPerCal) }
  \cup { <<c1, c2>> : c1 \in SeqsUpTo(MergeIntervals, MaxBusyPerCal),
                      c2 \in SeqsUpTo(MergeIntervals, 1) }

\* every window over 0..MaxT with window_start <= window_end
MergeWindows == { w \in (0..MaxT) \X (0..MaxT) : w[1] <= w[2] }

\* the variables of the front ends, unused by SpecMerge
IdleRequest ==
  /\ flow = "none"
  /\ time_frame = <<>>
  /\ preferred = <<>>
  /\ duration = 0
  /\ tz_offset = 0
  /\ start_dt_local = 0
  /\ end_dt_local = 0
  /\ day_cursor = 0
  /\ windows = <<>>
  /\ candidate_free = <<>>
  /\ slot = None
  /\ created = FALSE
  /\ now = 0
  /\ attendees = <<>>
  /\ emails = <<>>
  /\ recheck = <<>>
  /\ steps = <<>>
  /\ visited = <<>>
  /\ inverted = <<>>

pipelineVars == <<flow, time_frame, preferred, duration, tz_offset,
                  start_dt_local, end_dt_local, day_cursor, windows,
                  candidate_free, slot, created, now, attendees, emails,
                  recheck, steps, visited, inverted>>

InitMerge ==
  /\ pc = "merge_call"
  /\ IdleRequest
  /\ calendars \in MergeInputs
  /\ merged_busy = <<>>
  /\ all_busy = <<>>
  /\ idx = 0
  /\ current = <<>>
  /\ merged = <<>>
  /\ window = <<>>
  /\ free_slots = <<>>

\* lines 92-103: flatten, return [] when empty, sort, start the sweep
MergeFlatten ==
  /\ pc = "merge_call"
  /\ LET flat == SortByStart(Flatten(calendars)) IN
     /\ all_busy' = flat
     /\ IF flat = <<>>
        THEN /\ pc' = "merge_done"
             /\ UNCHANGED <<idx, current>>
        ELSE /\ pc' = "merge_sweep"
             /\ idx' = 2
             /\ current' = flat[1]
  /\ UNCHANGED <<calendars, merged_busy, merged, window, free_slots>>
  /\ UNCHANGED pipelineVars

\* lines 105-110: one iteration of the for loop
MergeLoop ==
  /\ pc = "merge_sweep"
  /\ idx <= Len(all_busy)
  /\ LET st == MergeStep([merged |-> merged, cur |-> current], all_busy[idx]) IN
     /\ merged' = st.merged
     /\ current' = st.cur
  /\ idx' = idx + 1
  /\ UNCHANGED <<pc, calendars, merged_busy, all_busy, window, free_slots>>
  /\ UNCHANGED pipelineVars

\* lines 112-113: append the running interval and return
MergeReturn ==
  /\ pc = "merge_sweep"
  /\ idx > Len(all_busy)
  /\ merged' = CloseRunning(merged, current)
  /\ pc' = "merge_done"
  /\ UNCHANGED <<calendars, merged_busy, all_busy, idx, current, window,
                 free_slots>>
  /\ UNCHANGED pipelineVars

\* the caller receives the merged list and inverts it over a window
InvertCall ==
  /\ pc = "merge_done"
  /\ merged_busy' = merged
  /\ \E w \in MergeWindows :
       /\ window' = w
       /\ free_slots' = invert_busy_to_free(merged, w[1], w[2])
  /\ pc' = "invert_done"
  /\ UNCHANGED <<calendars, all_busy, idx, current, merged>>
  /\ UNCHANGED pipelineVars

NextMerge == MergeFlatten \/ MergeLoop \/ MergeReturn \/ InvertCall

SpecMerge == InitMerge /\ [][NextMerge]_vars

\* the step-by-step run computes what the operator computes
MergeRunAgrees ==
  pc \in {"merge_done", "invert_done"} => merged = merge_busy_intervals(calendars)

\* ------------------------------------------------ properties, SpecMerge

\* t lies in the half-open interval [start, end)
Covers(iv, t) == iv[1] <= t /\ t < iv[2]

SortedByStart(s) == \A i \in 1..(Len(s) - 1) : s[i][1] <= s[i + 1][1]

InsideWindow(iv, w) == w[1] <= iv[1] /\ iv[2] <= w[2]

RECURSIVE InsertByStartEnd(_, _)
InsertByStartEnd(x, s) ==
  IF s = <<>> THEN <<x>>
  ELSE IF x[1] < Head(s)[1] \/ (x[1] = Head(s)[1] /\ x[2] < Head(s)[2])
       THEN <<x>> \o s
       ELSE <<Head(s)>> \o InsertByStartEnd(x, Tail(s))

RECURSIVE SortByStartEnd(_)
\* sorted by start, an empty interval before a longer one of the same start
SortByStartEnd(s) ==
  IF s = <<>> THEN <<>>
  ELSE InsertByStartEnd(Head(s), SortByStartEnd(Tail(s)))

\* s covers w from end to end, each interval ending where the next starts
Tiles(s, w) ==
  /\ s # <<>>
  /\ s[1][1] = w[1]
  /\ s[Len(s)][2] = w[2]
  /\ \A i \in 1..(Len(s) - 1) : s[i][2] = s[i + 1][1]

\* C3: every free slot returned by invert_busy_to_free is a sub-interval of
\* the window, also when the merged busy list holds intervals lying partly
\* or wholly outside the window.
C3_FreeSlotsInsideWindow ==
  pc = "invert_done" =>
    \A i \in 1..Len(free_slots) : InsideWindow(free_slots[i], window)

\* C4 as stated: the output of merge_busy_intervals is sorted by start and
\* adjacent output intervals satisfy a.end < b.start strictly (they neither
\* overlap nor touch).
C4_StrictlySeparated ==
  pc = "merge_done" =>
    /\ SortedByStart(merged)
    /\ \A i \in 1..(Len(merged) - 1) : merged[i][2] < merged[i + 1][1]

\* C4 as amended: the output of merge_busy_intervals is sorted by start and
\* adjacent output intervals satisfy a.end <= b.start: no two output
\* intervals overlap, but they may touch.
C4_SortedNonOverlapping ==
  pc = "merge_done" =>
    /\ SortedByStart(merged)
    /\ \A i \in 1..(Len(merged) - 1) : merged[i][2] <= merged[i + 1][1]

\* an unsorted input whose output holds an interval ending where the next
\* one starts
C4_Witness ==
  /\ pc = "merge_done"
  /\ ~SortedByStart(Flatten(calendars))
  /\ \E i \in 1..(Len(merged) - 1) : merged[i][2] = merged[i + 1][1]

\* C5: in the sweep, a next interval whose start equals the running end
\* closes the running interval (it is appended as it stands and the next
\* interval becomes the running one); only a start strictly below the
\* running end extends it, to the maximum of the two ends.
C5_TouchingNotMerged ==
  [][ (pc = "merge_sweep" /\ idx <= Len(all_busy)) =>
        LET nxt == all_busy[idx] IN
        /\ nxt[1] = current[2] =>
             /\ merged' = Append(merged, current)
             /\ current' = nxt
        /\ (current'[1] = current[1] /\ merged' = merged) <=>
             nxt[1] < current[2]
        /\ nxt[1] < current[2] =>
             current' = <<current[1], Max2(current[2], nxt[2])>>
    ]_vars

\* the output holds two touching intervals of positive length
C5_Witness ==
  /\ pc = "merge_done"
  /\ \E i \in 1..(Len(merged) - 1) :
       /\ merged[i][2] = merged[i + 1][1]
       /\ merged[i][1] < merged[i][2]
       /\ merged[i + 1][1] < merged[i + 1][2]

\* C6: every instant covered by an input busy interval (read half-open) is
\* covered by exactly one interval of the output of merge_busy_intervals.
C6_MergeCompleteness ==
  pc = "merge_done" =>
    \A t \in 0..MaxT :
      (\E k \in 1..Len(Flatten(calendars)) : Covers(Flatten(calendars)[k], t))
        => Cardinality({ i \in 1..Len(merged) : Covers(merged[i], t) }) = 1

\* an unsorted input with a nested interval, merged into fewer intervals
C6_Witness ==
  /\ pc = "merge_done"
  /\ ~SortedByStart(Flatten(calendars))
  /\ Len(merged) < Len(Flatten(calendars))
  /\ \E j, k \in 1..Len(Flatten(calendars)) :
       LET a == Flatten(calendars)[j]
           b == Flatten(calendars)[k]
       IN  a[1] < b[1] /\ b[2] < a[2]

\* C7: when every merged busy interval lies inside the window, the free
\* slots of invert_busy_to_free together with the busy intervals, sorted by
\* start, tile the window: first starts at window_start, last ends at
\* window_end, each ends where the next starts.
C7_InvertComplement ==
  (/\ pc = "invert_done"
   /\ \A i \in 1..Len(merged_busy) : InsideWindow(merged_busy[i], window))
  => Tiles(SortByStartEnd(free_slots \o merged_busy), window)

\* two busy intervals inside the window with free time around them
C7_Witness ==
  /\ pc = "invert_done"
  /\ \A i \in 1..Len(merged_busy) : InsideWindow(merged_busy[i], window)
  /\ Len(merged_busy) >= 2
  /\ Len(free_slots) >= 2
  /\ free_slots[Len(free_slots)][2] = window[2]

\* C8: for window_start <= window_end the output of invert_busy_to_free is
\* ordered by start, pairwise non-overlapping, every slot has strictly
\* positive length, and an empty window (window_start = window_end) yields
\* the empty sequence.
C8_FreeSlotsWellFormed ==
  (pc = "invert_done" /\ window[1] <= window[2]) =>
    /\ SortedByStart(free_slots)
    /\ \A i \in 1..(Len(free_slots) - 1) : free_slots[i][2] <= free_slots[i + 1][1]
    /\ \A i \in 1..Len(free_slots) : free_slots[i][1] < free_slots[i][2]
    /\ window[1] = window[2] => free_slots = <<>>

\* C14: feeding the output of merge_busy_intervals back in as the busy list
\* of a single calendar returns that output unchanged.
C14_MergeIdempotent ==
  pc = "merge_done" => merge_busy_intervals(<<merged>>) = merged

\* an output of several intervals, two of them touching, obtained by
\* merging overlapping input
C14_Witness ==
  /\ pc = "merge_done"
  /\ Len(merged) >= 2
  /\ Len(merged) < Len(Flatten(calendars))
  /\ \E i \in 1..(Len(merged) - 1) : merged[i][2] = merged[i + 1][1]

\* ===================================================================
\* SpecMalformed: the same run of merge_busy_intervals and
\* invert_busy_to_free on a busy list that holds a malformed interval.
\* ===================================================================

Malformed(iv) == iv[1] > iv[2]

\* busy records over 0..MaxT whose start may lie after their end
AnyIntervals == { iv \in (0..MaxT) \X (0..MaxT) : iv[1] # iv[2] }

\* one calendar whose busy list holds at least one malformed interval
MalformedInputs ==
  { <<c1>> : c1 \in { c \in SeqsUpTo(AnyIntervals, MaxBusyPerCal) :
                        \E k \in 1..Len(c) : Malformed(c[k]) } }

InitMalformed ==
  /\ pc = "merge_call"
  /\ IdleRequest
  /\ calendars \in MalformedInputs
  /\ merged_busy = <<>>
  /\ all_busy = <<>>
  /\ idx = 0
  /\ current = <<>>
  /\ merged = <<>>
  /\ window = <<>>
  /\ free_slots = <<>>

SpecMalformed == InitMalformed /\ [][NextMerge]_vars

\* C13: a call given a malformed interval (start > end) does not return a
\* result, and no returned merged interval or free slot has its end before
\* its start.
C13_MalformedRejected ==
  /\ pc = "merge_done" =>
       /\ \A k \in 1..Len(Flatten(calendars)) : ~Malformed(Flatten(calendars)[k])
       /\ \A i \in 1..Len(merged) : ~Malformed(merged[i])
  /\ pc = "invert_done" =>
       /\ \A i \in 1..Len(merged_busy) : ~Malformed(merged_busy[i])
       /\ \A i \in 1..Len(free_slots) : ~Malformed(free_slots[i])

\* merge_busy_intervals has returned an interval whose end is before its
\* start
C13_MalformedReturned ==
  /\ pc = "merge_done"
  /\ \E i \in 1..Len(merged) : Malformed(merged[i])

\* ===================================================================
\* SpecWindows: preferred_hours_to_windows applied to every bounded
\* (preference tag, day, time zone).
\* ===================================================================

\* "mornings", "Morning", "afternoons", "Evenings", "none", "anytime"
PreferenceTags ==
  { <<"m", "o", "r", "n", "i", "n", "g", "s">>,
    <<"M", "o", "r", "n", "i", "n", "g">>,
    <<"a", "f", "t", "e", "r", "n", "o", "o", "n", "s">>,
    <<"E", "v", "e", "n", "i", "n", "g", "s">>,
    <<"n", "o", "n", "e">>,
    <<"a", "n", "y", "t", "i", "m", "e">> }

\* days of a scanned week
WindowDays == 0..6

\* UTC, UTC+05:30, UTC-08:00
TzOffsets == { 0, Hour(5) + 30, 0 - Hour(8) }

InitWindows ==
  /\ pc = "windows_call"
  /\ flow = "none"
  /\ time_frame = <<>>
  /\ preferred \in PreferenceTags
  /\ duration = 0
  /\ tz_offset \in TzOffsets
  /\ start_dt_local = 0
  /\ end_dt_local = 0
  /\ day_cursor \in WindowDays
  /\ windows = <<>>
  /\ candidate_free = <<>>
  /\ slot = None
  /\ created = FALSE
  /\ now = 0
  /\ attendees = <<>>
  /\ emails = <<>>
  /\ recheck = <<>>
  /\ steps = <<>>
  /\ visited = <<>>
  /\ inverted = <<>>
  /\ calendars = <<>>
  /\ merged_busy = <<>>
  /\ all_busy = <<>>
  /\ idx = 0
  /\ current = <<>>
  /\ merged = <<>>
  /\ window = <<>>
  /\ free_slots = <<>>

BuildWindows ==
  /\ pc = "windows_call"
  /\ windows' = preferred_hours_to_windows(preferred, day_cursor, tz_offset)
  /\ pc' = "windows_done"
  /\ UNCHANGED <<flow, time_frame, preferred, duration, tz_offset,
                 start_dt_local, end_dt_local, day_cursor, candidate_free,
                 slot, created, calendars, merged_busy>>
  /\ UNCHANGED <<now, attendees, emails, recheck, steps, visited, inverted>>
  /\ UNCHANGED mergeVars

NextWindows == BuildWindows

SpecWindows == InitWindows /\ [][NextWindows]_vars

\* the local window the tag stands for: morning 09:00-12:00, afternoon
\* 13:00-17:00, evening 18:00-21:00, anything else 09:00-17:00
TagWindow(tag, day, tz) ==
  IF Contains(Str_morning, Lower(tag))
  THEN <<Combine(day, Hour(9), tz), Combine(day, Hour(12), tz)>>
  ELSE IF Contains(Str_afternoon, Lower(tag))
  THEN <<Combine(day, Hour(13), tz), Combine(day, Hour(17), tz)>>
  ELSE IF Contains(Str_evening, Lower(tag))
  THEN <<Combine(day, Hour(18), tz), Combine(day, Hour(21), tz)>>
  ELSE <<Combine(day, Hour(9), tz), Combine(day, Hour(17), tz)>>

\* C9: preferred_hours_to_windows gives, by case-insensitive substring
\* match of the tag, the day's local window 09:00-12:00 for "morning",
\* 13:00-17:00 for "afternoon", 18:00-21:00 for "evening", and 09:00-17:00
\* for any other tag.
C9_TagToWindow ==
  pc = "windows_done" =>
    windows = << TagWindow(preferred, day_cursor, tz_offset) >>

\* ===================================================================
\* SpecTimeFrame: parse_time_frame applied to every bounded tag, time
\* zone and current instant.
\* ===================================================================

\* "today", "TODAY", "Tomorrow", "today or tomorrow", "next week",
\* "this week", ""
TimeFrameTags ==
  { <<"t", "o", "d", "a", "y">>,
    <<"T", "O", "D", "A", "Y">>,
    <<"T", "o", "m", "o", "r", "r", "o", "w">>,
    <<"t", "o", "d", "a", "y", " ", "o", "r", " ", "t", "o", "m", "o", "r", "r", "o", "w">>,
    <<"n", "e", "x", "t", " ", "w", "e", "e", "k">>,
    <<"t", "h", "i", "s", " ", "w", "e", "e", "k">>,
    <<>> }

\* the instants at which parse_time_frame is called; 00:00 is local
\* midnight at offset 0, 18:30 is local midnight at offset +05:30
Instants ==
  { 0, Hour(8), Hour(18) + 30, Hour(23) + 30, MinutesPerDay + Hour(2) }

InitTimeFrame ==
  /\ pc = "time_frame_call"
  /\ flow = "none"
  /\ time_frame \in TimeFrameTags
  /\ preferred = <<>>
  /\ duration = 0
  /\ tz_offset \in TzOffsets
  /\ start_dt_local = 0
  /\ end_dt_local = 0
  /\ day_cursor = 0
  /\ windows = <<>>
  /\ candidate_free = <<>>
  /\ slot = None
  /\ created = FALSE
  /\ now \in Instants
  /\ attendees = <<>>
  /\ emails = <<>>
  /\ recheck = <<>>
  /\ steps = <<>>
  /\ visited = <<>>
  /\ inverted = <<>>
  /\ calendars = <<>>
  /\ merged_busy = <<>>
  /\ all_busy = <<>>
  /\ idx = 0
  /\ current = <<>>
  /\ merged = <<>>
  /\ window = <<>>
  /\ free_slots = <<>>

TimeFrameCall ==
  /\ pc = "time_frame_call"
  /\ LET r == parse_time_frame(time_frame, now, tz_offset) IN
       /\ start_dt_local' = r[1]
       /\ end_dt_local' = r[2]
  /\ pc' = "time_frame_done"
  /\ UNCHANGED <<flow, time_frame, preferred, duration, tz_offset, day_cursor,
                 windows, candidate_free, slot, created, calendars, merged_busy>>
  /\ UNCHANGED <<now, attendees, emails, recheck, steps, visited, inverted>>
  /\ UNCHANGED mergeVars

NextTimeFrame == TimeFrameCall

SpecTimeFrame == InitTimeFrame /\ [][NextTimeFrame]_vars

\* the last local midnight at or before the current instant
LastMidnight == now - ((now + tz_offset) % MinutesPerDay)

HasToday == Contains(Str_today, Lower(time_frame))
HasTomorrow == Contains(Str_tomorrow, Lower(time_frame))

\* C15 as stated: a tag containing "today" gives [midnight today, midnight
\* tomorrow), a tag containing "tomorrow" gives [midnight tomorrow, midnight
\* of the day after), and any other tag gives a window that covers the 7
\* days following the current instant.
C15_FallbackFromNow ==
  pc = "time_frame_done" =>
    /\ HasToday =>
         /\ start_dt_local = LastMidnight
         /\ end_dt_local = LastMidnight + MinutesPerDay
    /\ HasTomorrow =>
         /\ start_dt_local = LastMidnight + MinutesPerDay
         /\ end_dt_local = LastMidnight + 2 * MinutesPerDay
    /\ (~HasToday /\ ~HasTomorrow) =>
         /\ start_dt_local <= now
         /\ now + 7 * MinutesPerDay <= end_dt_local

\* C15 amended: matching case-insensitively, a tag containing "today" gives
\* [midnight today, midnight tomorrow); a tag containing "tomorrow" and not
\* "today" gives [midnight tomorrow, midnight of the day after); any other
\* tag gives [midnight today, midnight today + 7 days).
C15_TimeFrameWindow ==
  pc = "time_frame_done" =>
    /\ HasToday =>
         /\ start_dt_local = LastMidnight
         /\ end_dt_local = LastMidnight + MinutesPerDay
    /\ (HasTomorrow /\ ~HasToday) =>
         /\ start_dt_local = LastMidnight + MinutesPerDay
         /\ end_dt_local = LastMidnight + 2 * MinutesPerDay
    /\ (~HasToday /\ ~HasTomorrow) =>
         /\ start_dt_local = LastMidnight
         /\ end_dt_local = LastMidnight + 7 * MinutesPerDay

\* the fallback window computed some time after local midnight: it ends
\* before 7 days from the current instant have passed
C15_Witness ==
  /\ pc = "time_frame_done"
  /\ ~HasToday /\ ~HasTomorrow
  /\ LastMidnight < now
  /\ end_dt_local < now + 7 * MinutesPerDay

\* a tag naming both days is read as "today"
C15_BothTagsReached ==
  /\ pc = "time_frame_done"
  /\ HasToday /\ HasTomorrow
  /\ end_dt_local = start_dt_local + MinutesPerDay

\* ===================================================================
\* Spec: one run of a front end, from the parsed request to the created
\* event (agent.py main, ui.py "Schedule Meeting" handler).
\* ===================================================================

\* the attendee lists of the parsed request:
\* ["bob"], ["a@x"], ["a@x.io"], ["bob", " b@y.co", "a@x.io"]
AttendeeLists ==
  { <<<<"b", "o", "b">>>>,
    <<<<"a", "@", "x">>>>,
    <<<<"a", "@", "x", ".", "i", "o">>>>,
    <<<<"b", "o", "b">>, <<" ", "b", "@", "y", ".", "c", "o">>, <<"a", "@", "x", ".", "i", "o">>>> }

RECURSIVE StripLeft(_)
StripLeft(str) ==
  IF str # <<>> /\ Head(str) = " " THEN StripLeft(Tail(str)) ELSE str

RECURSIVE StripRight(_)
StripRight(str) ==
  IF str # <<>> /\ str[Len(str)] = " "
  THEN StripRight(SubSeq(str, 1, Len(str) - 1))
  ELSE str

\* str.strip()
Strip(str) == StripLeft(StripRight(str))

HasAt(str) == Contains(<<"@">>, str)

RECURSIVE ExtractEmails(_)
\* emails = [a.strip() for a in attendees_parsed if "@" in str(a)]
ExtractEmails(list) ==
  IF list = <<>> THEN <<>>
  ELSE (IF HasAt(Head(list)) THEN <<Strip(Head(list))>> ELSE <<>>)
         \o ExtractEmails(Tail(list))

\* re.match(r"^[^@]+@[^@]+\.[^@]+$", e.strip())
is_valid_email(e) ==
  LET t == Strip(e) IN
  \E p \in 2..Len(t) :
    /\ t[p] = "@"
    /\ \A k \in 1..Len(t) : k # p => t[k] # "@"
    /\ \E q \in (p + 2)..(Len(t) - 1) : t[q] = "."

\* ui.py: neither "if not emails" nor "if invalid" stops the run
EmailsAccepted(em) ==
  /\ em # <<>>
  /\ \A k \in 1..Len(em) : is_valid_email(em[k])

\* items of a free/busy query: the emails, or the primary calendar alone
QueriedCalendars(em) == IF em = <<>> THEN 1 ELSE Len(em)

\* a variant that reports a conflict only when every calendar is busy
AllBusy(resp) == \A k \in 1..Len(resp) : resp[k] # <<>>

\* slot_conflicts: some calendar of the response has a busy entry
AnyBusy(resp) == \E k \in 1..Len(resp) : resp[k] # <<>>

\* the responses of the re-query over the chosen slot: each queried
\* calendar is free, or busy during the slot
RecheckResponses(em, chosen) ==
  [1..QueriedCalendars(em) -> { <<>>, <<chosen>> }]

\* "today", "Tomorrow", "next week"
TimeFrames ==
  { <<"t", "o", "d", "a", "y">>,
    <<"T", "o", "m", "o", "r", "r", "o", "w">>,
    <<"n", "e", "x", "t", " ", "w", "e", "e", "k">> }

\* "mornings", "none"
RequestTags ==
  { <<"m", "o", "r", "n", "i", "n", "g", "s">>, <<"n", "o", "n", "e">> }

\* duration_minutes of the request
Durations == { 60, 240 }

\* local time of day at which the request is made
NowLocalMinutes == { Hour(8), Hour(23) + 30 }

\* time zone of the primary calendar
RequestTzOffsets == { Hour(5) + 30 }

\* busy periods start and end at these offsets from the request window's
\* start: 09:00 and 13:00 of its first day, 10:00, 12:00, 15:00 and 17:00
\* of its second day
BusyOffsets ==
  { Hour(9), Hour(13),
    MinutesPerDay + Hour(10), MinutesPerDay + Hour(12),
    MinutesPerDay + Hour(15), MinutesPerDay + Hour(17) }

\* the busy periods a response may report inside [fb_start, fb_end]
BusyPeriods(fb_start, fb_end) ==
  { b \in { fb_start + o : o \in BusyOffsets } \X { fb_start + o : o \in BusyOffsets } :
      b[1] < b[2] /\ b[2] <= fb_end }

\* responses for one or two queried calendars, MaxBusyTotal periods in all
\* and at most one of them in the second calendar, in any order and
\* overlapping in any way
Responses(fb_start, fb_end) ==
  LET P == BusyPeriods(fb_start, fb_end) IN
  { <<c1>> : c1 \in SeqsUpTo(P, MaxBusyTotal) }
  \cup UNION { { <<c1, c2>> : c1 \in [1..k -> P],
                              c2 \in SeqsUpTo(P, Min2(1, MaxBusyTotal - k)) } :
               k \in 0..MaxBusyTotal }

\* a variant of the loop test that also admits a day starting at the end
ScanGuardInclusive(day, end_dt, tz) == Combine(day, 0, tz) <= end_dt

\* while combine(day_cursor, time(0,0), tz) < end_dt_local
ScanGuard(day, end_dt, tz) == Combine(day, 0, tz) < end_dt

\* (w_start_clamped, w_end_clamped) of a preference window
Clamp(w, start_dt, end_dt) == <<Max2(w[1], start_dt), Min2(w[2], end_dt)>>

\* if w_end_clamped <= w_start_clamped: continue
EmptyClamp(c) == c[2] <= c[1]

RECURSIVE InvertCalls(_, _, _)
\* for w_start, w_end in windows: the clamped windows that are not skipped,
\* the arguments of the calls of invert_busy_to_free, in order
InvertCalls(ws, start_dt, end_dt) ==
  IF ws = <<>> THEN <<>>
  ELSE LET c == Clamp(Head(ws), start_dt, end_dt) IN
       (IF EmptyClamp(c) THEN <<>> ELSE <<c>>)
         \o InvertCalls(Tail(ws), start_dt, end_dt)

RECURSIVE FreeSlices(_, _)
\* candidate_free.extend(invert_busy_to_free(...)) for each call
FreeSlices(calls, busy_list) ==
  IF calls = <<>> THEN <<>>
  ELSE invert_busy_to_free(busy_list, Head(calls)[1], Head(calls)[2])
         \o FreeSlices(Tail(calls), busy_list)

\* the body of the loop over the windows of one day
ScanWindows(ws, busy_list, start_dt, end_dt) ==
  FreeSlices(InvertCalls(ws, start_dt, end_dt), busy_list)

\* candidate_free.sort(key=lambda x: x[0])
sort_candidates(c) == StableSort(c)

\* a variant that goes on to the creation whatever find_first_slot returned
ProceedRegardless(selected, fl) ==
  IF fl = "web" THEN "conflict_check" ELSE "create"

\* if not slot_start_utc: report "no available slot" and end the run
AfterSelect(selected, fl) ==
  IF selected = None THEN "done"
  ELSE IF fl = "web" THEN "conflict_check" ELSE "create"

Init ==
  /\ pc = "start"
  /\ flow \in {"cli", "web"}
  /\ time_frame = <<>>
  /\ preferred = <<>>
  /\ duration = 0
  /\ tz_offset = 0
  /\ start_dt_local = 0
  /\ end_dt_local = 0
  /\ day_cursor = 0
  /\ windows = <<>>
  /\ candidate_free = <<>>
  /\ slot = None
  /\ created = FALSE
  /\ now = 0
  /\ attendees = <<>>
  /\ emails = <<>>
  /\ recheck = <<>>
  /\ steps = <<>>
  /\ visited = <<>>
  /\ inverted = <<>>
  /\ calendars = <<>>
  /\ merged_busy = <<>>
  /\ all_busy = <<>>
  /\ idx = 0
  /\ current = <<>>
  /\ merged = <<>>
  /\ window = <<>>
  /\ free_slots = <<>>

\* parse_request and the extraction of the parsed fields; an empty request
\* or a failure of parse_request ends the run
ParseRequest ==
  /\ pc = "start"
  /\ \/ /\ attendees' \in AttendeeLists
        /\ time_frame' \in TimeFrames
        /\ preferred' \in RequestTags
        /\ duration' \in Durations
        /\ steps' = Append(steps, "parse_request")
        /\ pc' = "attendees"
     \/ /\ pc' = "done"
        /\ UNCHANGED <<attendees, time_frame, preferred, duration, steps>>
  /\ UNCHANGED <<flow, tz_offset, start_dt_local, end_dt_local, day_cursor,
                 windows, candidate_free, slot, created, calendars, merged_busy>>
  /\ UNCHANGED <<now, emails, recheck, visited, inverted>>
  /\ UNCHANGED mergeVars

\* the emails among the attendees; the web flow stops without an email or
\* with an invalid one
CheckAttendees ==
  /\ pc = "attendees"
  /\ emails' = ExtractEmails(attendees)
  /\ IF flow = "web" /\ ~EmailsAccepted(emails')
     THEN /\ pc' = "done"
          /\ UNCHANGED steps
     ELSE /\ pc' = "auth"
          /\ steps' = Append(steps, "emails")
  /\ UNCHANGED <<flow, time_frame, preferred, duration, tz_offset,
                 start_dt_local, end_dt_local, day_cursor, windows,
                 candidate_free, slot, created, calendars, merged_busy>>
  /\ UNCHANGED <<now, attendees, recheck, visited, inverted>>
  /\ UNCHANGED mergeVars

\* credentials, service and calendar metadata; a failure ends the run
Authenticate ==
  /\ pc = "auth"
  /\ \/ /\ tz_offset' \in RequestTzOffsets
        /\ steps' = Append(steps, "authenticate")
        /\ pc' = "time_window"
     \/ /\ pc' = "done"
        /\ UNCHANGED <<tz_offset, steps>>
  /\ UNCHANGED <<flow, time_frame, preferred, duration, start_dt_local,
                 end_dt_local, day_cursor, windows, candidate_free, slot,
                 created, calendars, merged_busy>>
  /\ UNCHANGED <<now, attendees, emails, recheck, visited, inverted>>
  /\ UNCHANGED mergeVars

\* parse_time_frame; the web flow widens a window shorter than a day
ParseTimeFrame ==
  /\ pc = "time_window"
  /\ \E now_local \in NowLocalMinutes :
       LET r == parse_time_frame(time_frame, now_local - tz_offset, tz_offset) IN
       /\ start_dt_local' = r[1]
       /\ end_dt_local' =
            IF flow = "web" /\ (r[2] - r[1]) \div MinutesPerDay < 1
            THEN r[1] + 7 * MinutesPerDay
            ELSE r[2]
  /\ steps' = Append(steps, "parse_time_frame")
  /\ pc' = "freebusy"
  /\ UNCHANGED <<flow, time_frame, preferred, duration, tz_offset, day_cursor,
                 windows, candidate_free, slot, created, calendars, merged_busy>>
  /\ UNCHANGED <<now, attendees, emails, recheck, visited, inverted>>
  /\ UNCHANGED mergeVars

\* query_freebusy, one calendar per queried id, merge_busy_intervals, and
\* the start of the day scan; a failure of the query ends the run
QueryFreebusy ==
  /\ pc = "freebusy"
  /\ \/ /\ \E resp \in Responses(start_dt_local, end_dt_local) :
             /\ Len(resp) = QueriedCalendars(emails)
             /\ calendars' = resp
             /\ merged_busy' = merge_busy_intervals(resp)
        /\ candidate_free' = <<>>
        /\ day_cursor' = LocalDate(start_dt_local, tz_offset)
        /\ steps' = Append(steps, "query_freebusy")
        /\ pc' = "scan"
     \/ /\ pc' = "done"
        /\ UNCHANGED <<calendars, merged_busy, candidate_free, day_cursor,
                       steps>>
  /\ UNCHANGED <<flow, time_frame, preferred, duration, tz_offset,
                 start_dt_local, end_dt_local, windows, slot, created>>
  /\ UNCHANGED <<now, attendees, emails, recheck, visited, inverted>>
  /\ UNCHANGED mergeVars

\* one iteration of the while loop over the days
ScanDay ==
  /\ pc = "scan"
  /\ ScanGuard(day_cursor, end_dt_local, tz_offset)
  /\ windows' = preferred_hours_to_windows(preferred, day_cursor, tz_offset)
  /\ candidate_free' =
       candidate_free \o ScanWindows(windows', merged_busy, start_dt_local,
                                     end_dt_local)
  /\ visited' = Append(visited, day_cursor)
  /\ inverted' = inverted \o InvertCalls(windows', start_dt_local, end_dt_local)
  /\ day_cursor' = day_cursor + 1
  /\ UNCHANGED <<pc, flow, time_frame, preferred, duration, tz_offset,
                 start_dt_local, end_dt_local, slot, created, calendars,
                 merged_busy>>
  /\ UNCHANGED <<now, attendees, emails, recheck, steps>>
  /\ UNCHANGED mergeVars

\* the loop has ended: sort the candidates, find_first_slot, branch
SelectSlot ==
  /\ pc = "scan"
  /\ ~ScanGuard(day_cursor, end_dt_local, tz_offset)
  /\ candidate_free' = sort_candidates(candidate_free)
  /\ slot' = find_first_slot(candidate_free', duration)
  /\ pc' = AfterSelect(slot', flow)
  /\ steps' = IF pc' = "done" THEN Append(steps, "scan")
              ELSE steps \o <<"scan", "find_first_slot">>
  /\ UNCHANGED <<flow, time_frame, preferred, duration, tz_offset,
                 start_dt_local, end_dt_local, day_cursor, windows, created,
                 calendars, merged_busy>>
  /\ UNCHANGED <<now, attendees, emails, recheck, visited, inverted>>
  /\ UNCHANGED mergeVars

\* web flow: slot_conflicts re-queries free/busy over the chosen slot; the
\* event is created only when no calendar reports a busy entry
ConflictCheck ==
  /\ pc = "conflict_check"
  /\ \E resp \in RecheckResponses(emails, slot) :
       /\ recheck' = resp
       /\ IF AnyBusy(resp)
          THEN /\ pc' = "done"
               /\ UNCHANGED steps
          ELSE /\ pc' = "create"
               /\ steps' = Append(steps, "slot_conflicts")
  /\ UNCHANGED <<flow, time_frame, preferred, duration, tz_offset,
                 start_dt_local, end_dt_local, day_cursor, windows,
                 candidate_free, slot, created, calendars, merged_busy>>
  /\ UNCHANGED <<now, attendees, emails, visited, inverted>>
  /\ UNCHANGED mergeVars

\* create_event
CreateEvent ==
  /\ pc = "create"
  /\ created' = TRUE
  /\ steps' = Append(steps, "create_event")
  /\ pc' = "done"
  /\ UNCHANGED <<flow, time_frame, preferred, duration, tz_offset,
                 start_dt_local, end_dt_local, day_cursor, windows,
                 candidate_free, slot, calendars, merged_busy>>
  /\ UNCHANGED <<now, attendees, emails, recheck, visited, inverted>>
  /\ UNCHANGED mergeVars

Next ==
  \/ ParseRequest
  \/ CheckAttendees
  \/ Authenticate
  \/ ParseTimeFrame
  \/ QueryFreebusy
  \/ ScanDay
  \/ SelectSlot
  \/ ConflictCheck
  \/ CreateEvent

Spec == Init /\ [][Next]_vars

\* ------------------------------------------------------ properties, Spec

\* a slot has been selected
SlotSelected == pc \in {"conflict_check", "create", "done"} /\ slot # None

\* the days the scan has visited
ScannedDays == LocalDate(start_dt_local, tz_offset)..(day_cursor - 1)

\* half-open intervals a and b share an instant
Overlap(a, b) == a[1] < b[2] /\ b[1] < a[2]

\* the candidates long enough for the requested duration
Qualifying ==
  { i \in 1..Len(candidate_free) :
      candidate_free[i][2] - candidate_free[i][1] >= duration }

\* C1: a selected slot lies inside the request window [start_dt_local,
\* end_dt_local] and inside the preference window of one of the scanned
\* days, for every set of busy intervals reported inside the request window.
C1_SlotInsideWindows ==
  SlotSelected =>
    /\ InsideWindow(slot, <<start_dt_local, end_dt_local>>)
    /\ \E d \in ScannedDays :
         LET ws == preferred_hours_to_windows(preferred, d, tz_offset) IN
         \E k \in 1..Len(ws) : InsideWindow(slot, ws[k])

\* C2: a selected slot overlaps (as half-open intervals) no busy interval
\* of any calendar of the free/busy response.
C2_SlotIsFree ==
  SlotSelected =>
    \A c \in 1..Len(calendars) :
      \A k \in 1..Len(calendars[c]) : ~Overlap(slot, calendars[c][k])

\* a slot selected after busy time, with two calendars whose busy intervals
\* overlap each other and were reported out of start order
C2_Witness ==
  /\ SlotSelected
  /\ Len(calendars) = 2
  /\ Len(calendars[1]) = 1
  /\ Len(calendars[2]) = 1
  /\ Overlap(calendars[1][1], calendars[2][1])
  /\ calendars[2][1][1] < calendars[1][1][1]
  /\ calendars[2][1][1] < slot[1]

\* C10: the candidate list scanned by find_first_slot is sorted ascending
\* by start, and the selected slot starts at the start of the
\* earliest-starting candidate that is long enough: no candidate that
\* starts earlier has sufficient length.
C10_FirstFitMinimal ==
  SlotSelected =>
    /\ SortedByStart(candidate_free)
    /\ \E i \in Qualifying :
         /\ slot[1] = candidate_free[i][1]
         /\ \A j \in Qualifying : candidate_free[i][1] <= candidate_free[j][1]
    /\ \A j \in 1..Len(candidate_free) :
         candidate_free[j][1] < slot[1] => j \notin Qualifying

\* the selected slot comes after a candidate that was too short
C10_Witness ==
  /\ SlotSelected
  /\ \E j \in 1..Len(candidate_free) :
       /\ candidate_free[j][1] < slot[1]
       /\ candidate_free[j][2] - candidate_free[j][1] < duration

\* C11: a slot returned by find_first_slot for a positive duration is
\* (candidate_start, candidate_start + duration) for the chosen candidate:
\* its length is exactly the duration, also when the candidate is longer,
\* and it does not extend past the candidate's end.
C11_Truncation ==
  SlotSelected =>
    /\ duration > 0
    /\ slot[2] - slot[1] = duration
    /\ \E i \in 1..Len(candidate_free) :
         /\ slot[1] = candidate_free[i][1]
         /\ slot[2] <= candidate_free[i][2]
         /\ \A j \in 1..(i - 1) : j \notin Qualifying

\* the slot was cut out of a candidate strictly longer than the duration
C11_Witness ==
  /\ SlotSelected
  /\ \E i \in 1..Len(candidate_free) :
       /\ slot[1] = candidate_free[i][1]
       /\ slot[2] < candidate_free[i][2]
       /\ \A j \in 1..(i - 1) : j \notin Qualifying

\* the day scan has ended and find_first_slot has run
SelectionMade ==
  /\ pc \in {"conflict_check", "create", "done"}
  /\ day_cursor > LocalDate(start_dt_local, tz_offset)

\* C12: when no candidate is long enough for the duration (the candidate
\* list may be empty), find_first_slot returns None and the run, CLI or
\* web, ends without create_event being called.
C12_NoSlotNoEvent ==
  (SelectionMade /\ Qualifying = {}) =>
    /\ slot = None
    /\ pc = "done"
    /\ created = FALSE

\* a web run that ended with candidates, none of them long enough
C12_Witness ==
  /\ SelectionMade
  /\ flow = "web"
  /\ candidate_free # <<>>
  /\ Qualifying = {}
  /\ pc = "done"

\* a CLI run that ended with an empty candidate list
C12_EmptyListReached ==
  /\ SelectionMade
  /\ flow = "cli"
  /\ candidate_free = <<>>
  /\ pc = "done"

\* ---------------------------------------------------------------- C16

\* the scan loop has been left
ScanEnded == \E i \in 1..Len(steps) : steps[i] = "scan"

\* the scan loop is running or has been left
ScanBegun == pc = "scan" \/ ScanEnded

\* the date of the request window's start
FirstDay == LocalDate(start_dt_local, tz_offset)

\* the local midnight that begins day d
MidnightOf(d) == d * MinutesPerDay - tz_offset

NonEmptyWindow(c) == c[1] < c[2]

\* the non-empty clamps of the preference windows of day d, in order
DayCalls(d) ==
  LET ws == preferred_hours_to_windows(preferred, d, tz_offset)
      clamps == [k \in 1..Len(ws) |->
                   <<IF ws[k][1] >= start_dt_local THEN ws[k][1]
                     ELSE start_dt_local,
                     IF ws[k][2] <= end_dt_local THEN ws[k][2]
                     ELSE end_dt_local>>]
  IN  SelectSeq(clamps, NonEmptyWindow)

RECURSIVE ResultsOfCalls(_)
\* what the calls of invert_busy_to_free return, one after the other
ResultsOfCalls(calls) ==
  IF calls = <<>> THEN <<>>
  ELSE invert_busy_to_free(merged_busy, Head(calls)[1], Head(calls)[2])
         \o ResultsOfCalls(Tail(calls))

\* the minutes from the midnight that begins day_cursor to the request end
MinutesLeft == end_dt_local - MidnightOf(day_cursor)

\* the days visited so far are the first days of the range, in order, and
\* the scan ends only when the next day starts at or after the request end
C16_Visits ==
  ScanBegun =>
    /\ \A i \in 1..Len(visited) :
         /\ visited[i] = FirstDay + i - 1
         /\ MidnightOf(visited[i]) < end_dt_local
    /\ day_cursor = FirstDay + Len(visited)
    /\ ScanEnded => MidnightOf(day_cursor) >= end_dt_local
    /\ visited = <<>> =>
         /\ inverted = <<>>
         /\ pc = "scan" => candidate_free = <<>>

\* an iteration visits day_cursor, leaves one day less to the request end,
\* calls invert_busy_to_free on the non-empty clamps of that day's windows
\* and adds what the calls return; nothing else visits a day or makes a call
C16_Progress ==
  /\ (pc = "scan" /\ pc' = "scan") =>
       LET calls == DayCalls(day_cursor) IN
       /\ MinutesLeft > 0
       /\ MinutesLeft' = MinutesLeft - MinutesPerDay
       /\ visited' = Append(visited, day_cursor)
       /\ inverted' = inverted \o calls
       /\ candidate_free' = candidate_free \o ResultsOfCalls(calls)
  /\ (pc # "scan" \/ pc' # "scan") =>
       (ScanBegun => (visited' = visited /\ inverted' = inverted))

\* C16: the day scan visits, once each and in ascending order, exactly the
\* days from the request start's date whose local midnight is strictly
\* before the request end, and then ends: every iteration starts with time
\* left to the request end and leaves one day less of it; the calls of invert_busy_to_free are, in order, the
\* non-empty clamps [max(windowStart, reqStart), min(windowEnd, reqEnd)] of
\* the visited days' preference windows, and the candidates are exactly
\* what these calls return, so an empty clamp produces nothing.
C16_DayScan == []C16_Visits /\ [][C16_Progress]_vars

\* a scan of seven days that is over, with busy time in the way
C16_Witness ==
  /\ ScanEnded
  /\ Len(visited) = 7
  /\ Len(inverted) = 7
  /\ merged_busy # <<>>
  /\ candidate_free # inverted

\* in every run the request window starts and ends at a local midnight, so
\* no preference window is cut or skipped by the clamp
C16_WholeWindows ==
  ScanBegun =>
    \A i \in 1..Len(visited) :
      \A k \in 1..Len(preferred_hours_to_windows(preferred, visited[i], tz_offset)) :
        LET w == preferred_hours_to_windows(preferred, visited[i], tz_offset)[k] IN
        /\ start_dt_local <= w[1]
        /\ w[2] <= end_dt_local
        /\ w[1] < w[2]

\* ---------------------------------------------------------------- C17

\* the steps of the web flow, in the order of the script
WebSteps ==
  <<"parse_request", "emails", "authenticate", "parse_time_frame",
    "query_freebusy", "scan", "find_first_slot", "slot_conflicts",
    "create_event">>

IsPrefix(a, b) == Len(a) <= Len(b) /\ \A i \in 1..Len(a) : a[i] = b[i]

\* create_event is about to be called or has been called
CreateReached == pc = "create" \/ created

\* C17: in the web flow the steps pass in the order of the script, and
\* create_event is reached only when the request was parsed, at least one
\* email was found and all are valid, authentication and metadata were
\* obtained, free/busy was queried, a slot was selected and the re-query
\* over the chosen slot reported no busy entry for any attendee; when the
\* re-query reports a busy entry the run ends without an event.
C17_WebGate ==
  flow = "web" =>
    /\ IsPrefix(steps, WebSteps)
    /\ CreateReached =>
         /\ Len(steps) >= Len(WebSteps) - 1
         /\ attendees # <<>>
         /\ emails # <<>>
         /\ \A k \in 1..Len(emails) : is_valid_email(emails[k])
         /\ slot # None
         /\ Len(recheck) = Len(emails)
         /\ \A k \in 1..Len(recheck) : recheck[k] = <<>>
    /\ (\E k \in 1..Len(recheck) : recheck[k] # <<>>) =>
         /\ pc = "done"
         /\ ~created

\* an event created in the web flow for two attendees
C17_Witness ==
  /\ flow = "web"
  /\ created
  /\ Len(emails) = 2
  /\ steps = WebSteps

\* the re-query found one of two attendees busy and the run ended
C17_BlockedReached ==
  /\ flow = "web"
  /\ pc = "done"
  /\ Len(recheck) = 2
  /\ recheck[1] = <<>>
  /\ recheck[2] # <<>>
  /\ ~created

====
